---- MODULE Spec2Model ----
(***************************************************************************)
(* A model of gerar_dashboard.py: the text normaliser, the cell formatters *)
(* (date, money, efficiency), the table renderer, the page builder with    *)
(* its client-side script, and main().                                     *)
(*                                                                         *)
(* Text is a sequence of one-character strings (<<"R","$">> is "R$"); a    *)
(* character outside ASCII is written by its code point ("U+00E9").        *)
(* A spreadsheet cell is a record [kind, s]: kind "nan" is a missing cell  *)
(* (None/NaN/NaT), kind "str" a text cell with text s, kind "num" a native *)
(* number whose str() is s.                                                *)
(***************************************************************************)
EXTENDS Integers, Sequences, FiniteSets, TLC

VARIABLES
    pc,             \* main(): position in the run
    fileExists,     \* main(): EXCEL_FILE.exists()
    fs,             \* main(): paths created under docs/
    tables,         \* main(): label -> rendered table (sequence of rows)
    months_found,   \* main(): the set handed to df_to_html_table
    months_sorted,  \* main(): sorted(months_found)
    options,        \* build_html(): the options of the month selector
    rowsRead,       \* rows read from the workbook so far
    sheetsIn,       \* label -> the sheet read_excel returned for it
    colName,        \* main(): the header of the column being formatted
    col,            \* main(): df[col] before the formatting loop reaches it
    colOut,         \* main(): df[col] after it, <<>> before
    normIn,         \* the argument of norm
    normOut,        \* the values norm returned, in call order
    dom,            \* the generated page's DOM, as the script sees it
    scriptRan       \* the page's script has run its last line

vars == <<pc, fileExists, fs, tables, months_found, months_sorted, options,
          rowsRead, sheetsIn, colName, col, colOut, normIn, normOut, dom,
          scriptRan>>

-----------------------------------------------------------------------------
(* Bounds of the model *)

MaxRows == 3
MaxNormLen == 3
MaxPageRows == 2
MaxMoneyLen == 4
MaxIntDigits == 7
MaxEffLen == 4
MaxFracDigits == 5

-----------------------------------------------------------------------------
(* Text helpers *)

\* All texts over alphabet A of length at most n.
Texts(A, n) == UNION {[1..m -> A] : m \in 0..n}

Range(f) == {f[i] : i \in DOMAIN f}

\* str.replace(old, new) for a one-character old; new is a text.
RECURSIVE Replace(_, _, _)
Replace(s, old, new) ==
    IF s = <<>> THEN <<>>
    ELSE (IF Head(s) = old THEN new ELSE <<Head(s)>>) \o Replace(Tail(s), old, new)

\* Characters str.strip() removes (those of the model's alphabets).
Whitespace == {" ", "U+00A0"}

RECURSIVE LStrip(_)
LStrip(s) ==
    IF s # <<>> /\ Head(s) \in Whitespace THEN LStrip(Tail(s)) ELSE s

RECURSIVE RStrip(_)
RStrip(s) ==
    IF s # <<>> /\ s[Len(s)] \in Whitespace
    THEN RStrip(SubSeq(s, 1, Len(s) - 1)) ELSE s

\* str.strip()
Strip(s) == RStrip(LStrip(s))

-----------------------------------------------------------------------------
(* norm: remove accents + lowercase + trim *)

\* The characters norm is exercised on: plain letters in both cases, a
\* space, e-acute in both cases (U+00E9, U+00C9), the spacing acute accent
\* (U+00B4), the trade mark sign (U+2122) and the combining acute (U+0301).
NormAlphabet == {"a", "A", " ", "U+00E9", "U+00C9", "U+00B4", "U+2122", "U+0301"}

UpperChars ==
    <<"A", "B", "C", "D", "E", "F", "G", "H", "I", "J", "K", "L", "M",
      "N", "O", "P", "Q", "R", "S", "T", "U", "V", "W", "X", "Y", "Z">>
LowerChars ==
    <<"a", "b", "c", "d", "e", "f", "g", "h", "i", "j", "k", "l", "m",
      "n", "o", "p", "q", "r", "s", "t", "u", "v", "w", "x", "y", "z">>

\* str.lower(), one character: the ASCII capitals, and capital e-acute
\* (U+00C9) and e-circumflex (U+00CA); every other character of the model
\* has no lowercase form.
LowerChar(c) ==
    IF \E i \in 1..26 : UpperChars[i] = c
    THEN LowerChars[CHOOSE i \in 1..26 : UpperChars[i] = c]
    ELSE CASE c = "U+00C9" -> "U+00E9"
           [] c = "U+00CA" -> "U+00EA"
           [] OTHER -> c

Lower(s) == [i \in DOMAIN s |-> LowerChar(s[i])]

\* unicodedata.normalize("NFKD", c), one character: its full compatibility
\* decomposition.
NFKDChar(c) ==
    CASE c = "U+00E9" -> <<"e", "U+0301">>
      [] c = "U+00C9" -> <<"E", "U+0301">>
      [] c = "U+00EA" -> <<"e", "U+0302">>
      [] c = "U+00CA" -> <<"E", "U+0302">>
      [] c = "U+00B4" -> <<" ", "U+0301">>
      [] c = "U+2122" -> <<"T", "M">>
      [] c = "U+00A0" -> <<" ">>
      [] OTHER -> <<c>>

RECURSIVE NFKD(_)
NFKD(s) == IF s = <<>> THEN <<>> ELSE NFKDChar(Head(s)) \o NFKD(Tail(s))

\* unicodedata.combining(c) # 0
Combining(c) == c \in {"U+0301", "U+0302"}

RECURSIVE DropCombining(_)
DropCombining(s) ==
    IF s = <<>> THEN <<>>
    ELSE (IF Combining(Head(s)) THEN <<>> ELSE <<Head(s)>>) \o DropCombining(Tail(s))

\* The argument None (not a text: its one element is no character), which
\* norm turns into "".
None == <<"None">>

norm(s) ==
    LET s0 == IF s = None THEN <<>> ELSE s
        s1 == Lower(Strip(s0))
        s2 == NFKD(s1)
    IN  DropCombining(s2)

NormArgs == Texts(NormAlphabet, MaxNormLen) \cup {None}

-----------------------------------------------------------------------------
(* Cells *)

NaN == [kind |-> "nan", s |-> <<>>]
Txt(s) == [kind |-> "str", s |-> s]
Num(s) == [kind |-> "num", s |-> s]

\* pd.isna(x)
isna(x) == x.kind = "nan"

\* str(x)
str(x) == IF x.kind = "nan" THEN <<"n", "a", "n">> ELSE x.s

\* The texts the formatters take for a blank: ["", "-", "nan", "NaN"]
Sentinels == {<<>>, <<"-">>, <<"n", "a", "n">>, <<"N", "a", "N">>}

-----------------------------------------------------------------------------
(* Numbers: float(), float arithmetic and format(v, ".2f"), on decimals of  *)
(* at most nine significant digits                                         *)

DigitChars == <<"0", "1", "2", "3", "4", "5", "6", "7", "8", "9">>
Digit == Range(DigitChars)
DigitVal(c) == (CHOOSE i \in 1..10 : DigitChars[i] = c) - 1

RECURSIVE Pow10(_)
Pow10(k) == IF k = 0 THEN 1 ELSE 10 * Pow10(k - 1)

\* 2^0 .. 2^30
Pow2Table ==
    <<1, 2, 4, 8, 16, 32, 64, 128, 256, 512, 1024, 2048, 4096, 8192, 16384,
      32768, 65536, 131072, 262144, 524288, 1048576, 2097152, 4194304,
      8388608, 16777216, 33554432, 67108864, 134217728, 268435456,
      536870912, 1073741824>>

Pow2(e) == Pow2Table[e + 1]

RECURSIVE TextToNat(_)
TextToNat(ds) ==
    IF ds = <<>> THEN 0
    ELSE 10 * TextToNat(SubSeq(ds, 1, Len(ds) - 1)) + DigitVal(ds[Len(ds)])

RECURSIVE NatToText(_)
NatToText(n) ==
    IF n < 10 THEN <<DigitChars[n + 1]>>
    ELSE NatToText(n \div 10) \o <<DigitChars[(n % 10) + 1]>>

\* Index of the first c in s, or 0.
RECURSIVE Find(_, _)
Find(s, c) ==
    IF s = <<>> THEN 0
    ELSE IF Head(s) = c THEN 1
    ELSE LET r == Find(Tail(s), c) IN IF r = 0 THEN 0 ELSE r + 1

\* c in s
Has(s, c) == Find(s, c) # 0

AllDigits(s) == \A i \in DOMAIN s : s[i] \in Digit

\* float(t) for a text without exponent, underscore, "inf" or "nan":
\* surrounding whitespace is dropped, then an optional sign, then digits
\* with at most one ".", at least one digit. ok = FALSE is ValueError.
\* The value is (-1)^neg * n / 10^k, rounded to the nearest double.
PyFloat(t) ==
    LET s == Strip(t)
        signed == s # <<>> /\ Head(s) \in {"+", "-"}
        body == IF signed THEN Tail(s) ELSE s
        dot == Find(body, ".")
        ip == IF dot = 0 THEN body ELSE SubSeq(body, 1, dot - 1)
        fp == IF dot = 0 THEN <<>> ELSE SubSeq(body, dot + 1, Len(body))
    IN  IF AllDigits(ip) /\ AllDigits(fp) /\ Len(ip) + Len(fp) >= 1
        THEN [ok |-> TRUE, neg |-> signed /\ Head(s) = "-",
              n |-> TextToNat(ip \o fp), k |-> Len(fp)]
        ELSE [ok |-> FALSE, neg |-> FALSE, n |-> 0, k |-> 0]

\* floor(log2(i)), 0 < i < 2^31
Log2Floor(i) ==
    CHOOSE e \in 0..30 : Pow2(e) <= i /\ (e = 30 \/ i < Pow2(e + 1))

\* (x * 2^p) % m for 0 < m < 2^30, by steps that stay below 2^31.
RECURSIVE Mul2Mod(_, _, _)
Mul2Mod(x, p, m) ==
    LET c == 30 - Log2Floor(m)
    IN  IF p <= c THEN ((x % m) * Pow2(p)) % m
        ELSE Mul2Mod(((x % m) * Pow2(c)) % m, p - c, m)

\* The least j with x * 2^j >= t, for 0 < x < t.
Doublings(x, t) ==
    CHOOSE j \in 1..30 : Pow2(j) >= ((t + x - 1) \div x)
                         /\ Pow2(j - 1) < ((t + x - 1) \div x)

\* floor(log2(n / 10^k)), n > 0: the exponent of the double nearest n/10^k.
Exp2(n, k) ==
    IF n >= Pow10(k) THEN Log2Floor(n \div Pow10(k)) ELSE 0 - Doublings(n, Pow10(k))

\* The sign of float(n/10^k) - n/10^k: the double has 53 significant bits,
\* so it is M / 2^p with p = 52 - Exp2 and M the integer nearest to
\* n * 2^p / 10^k; the remainder of that division says on which side.
FloatDir(n, k) ==
    IF n = 0 THEN 0
    ELSE LET r == Mul2Mod(n, 52 - Exp2(n, k), Pow10(k))
         IN  IF r = 0 THEN 0 ELSE IF 2 * r < Pow10(k) THEN 0 - 1 ELSE 1

\* The sign of (float(n/10^k) * 100.0) - 100n/10^k for 0 < n/10^k <= 1:
\* the product of the double M / 2^p by 100 is rounded to 53 bits again
\* (round half to even), to a multiple of 2^-q.
ScaledDir(n, k) ==
    LET p == 52 - Exp2(n, k)
        t == Pow10(k)
        r == Mul2Mod(n, p, t)
        rho == IF 2 * r <= t THEN r ELSE r - t
        q == 52 - Exp2(n, k - 2)
        t2 == Pow10(k - 2)
        D == t2 * Pow2(p - q)
        phiN == Mul2Mod(n, q, t2) * Pow2(p - q)
        num == phiN - rho
        par == (Mul2Mod(n, q, 2 * t2) - Mul2Mod(n, q, t2)) \div t2
        fl == num \div D
        rem == num % D
        X == IF 2 * rem < D THEN fl
             ELSE IF 2 * rem > D THEN fl + 1
             ELSE IF (par + fl) % 2 = 0 THEN fl ELSE fl + 1
    IN  IF X * D > phiN THEN 1 ELSE IF X * D < phiN THEN 0 - 1 ELSE 0

\* n/10^k lies exactly half way between two hundredths.
IsTie(n, k) == k >= 3 /\ n % Pow10(k - 2) = 5 * Pow10(k - 3)

\* The hundredths format(v, ".2f") prints for a double v >= 0 that equals
\* n/10^k up to a rounding error of sign dir: the exact binary value is
\* rounded to two decimals, half to even.
Round2(n, k, dir) ==
    IF k <= 2 THEN n * Pow10(2 - k)
    ELSE LET u == Pow10(k - 2)
             q == n \div u
             r == n % u
             half == 5 * Pow10(k - 3)
         IN  IF r < half THEN q
             ELSE IF r > half THEN q + 1
             ELSE IF dir > 0 THEN q + 1
             ELSE IF dir < 0 THEN q
             ELSE IF q % 2 = 0 THEN q ELSE q + 1

\* format(v, ".2f") of the double of sign neg whose magnitude prints as h
\* hundredths: "-1234.50"
Fixed2(neg, h) ==
    (IF neg THEN <<"-">> ELSE <<>>)
        \o NatToText(h \div 100) \o <<".">>
        \o <<DigitChars[((h % 100) \div 10) + 1], DigitChars[(h % 10) + 1]>>

\* The "," option of format(): a comma between groups of three digits of
\* the integer part.
RECURSIVE Group3(_)
Group3(ds) ==
    IF Len(ds) <= 3 THEN ds
    ELSE Group3(SubSeq(ds, 1, Len(ds) - 3)) \o <<",">> \o SubSeq(ds, Len(ds) - 2, Len(ds))

\* format(v, ",.2f"): "-1,234.50"
Fixed2Grouped(neg, h) ==
    (IF neg THEN <<"-">> ELSE <<>>)
        \o Group3(NatToText(h \div 100)) \o <<".">>
        \o <<DigitChars[((h % 100) \div 10) + 1], DigitChars[(h % 10) + 1]>>

-----------------------------------------------------------------------------
(* fmt_money *)

RS_Zero == <<"R", "$", " ", "0", ",", "0", "0">>

\* MoneyFloat with the thousands separators left in place.
MoneyFloat_KeepDots(s) ==
    IF Has(s, ",") THEN PyFloat(Replace(s, ",", <<".">>)) ELSE PyFloat(s)

\* The float the try block parses, by the separators present.
MoneyFloat(s) ==
    IF Has(s, ",") /\ Has(s, ".")
    THEN PyFloat(Replace(Replace(s, ".", <<>>), ",", <<".">>))
    ELSE IF Has(s, ",")
    THEN PyFloat(Replace(s, ",", <<".">>))
    ELSE PyFloat(s)

\* f"{v:,.2f}".replace(",", "X").replace(".", ",").replace("X", ".")
MoneyOut(v) ==
    LET dir == IF IsTie(v.n, v.k) THEN FloatDir(v.n, v.k) ELSE 0
        en == Fixed2Grouped(v.neg, Round2(v.n, v.k, dir))
    IN  Replace(Replace(Replace(en, ",", <<"X">>), ".", <<",">>), "X", <<".">>)

fmt_money(x) ==
    IF isna(x) THEN RS_Zero
    ELSE LET s == Strip(str(x))
         IN  IF s \in Sentinels THEN RS_Zero
             ELSE LET v == MoneyFloat(s)
                  IN  IF v.ok THEN <<"R", "$", " ">> \o MoneyOut(v)
                      ELSE s

-----------------------------------------------------------------------------
(* fmt_efficiency *)

\* InUnit with 1.0 left out.
InUnit_Below1(v) == v.n < Pow10(v.k) /\ (~v.neg \/ v.n = 0)

\* 0 <= v <= 1 (-0.0 included: 0 <= -0.0 holds)
InUnit(v) == v.n <= Pow10(v.k) /\ (~v.neg \/ v.n = 0)

\* The hundredths of f"{v:.2f}" after "if 0 <= v <= 1: v *= 100".
EffHundredths(v) ==
    IF InUnit(v)
    THEN IF v.k <= 2 THEN v.n * Pow10(4 - v.k)
         ELSE Round2(v.n, v.k - 2,
                     IF IsTie(v.n, v.k - 2) THEN ScaledDir(v.n, v.k) ELSE 0)
    ELSE Round2(v.n, v.k, IF IsTie(v.n, v.k) THEN FloatDir(v.n, v.k) ELSE 0)

fmt_efficiency(x) ==
    IF isna(x) THEN <<"-">>
    ELSE LET s == Strip(str(x))
         IN  IF s \in Sentinels THEN <<"-">>
             ELSE LET s2 == Replace(Strip(Replace(s, "%", <<>>)), ",", <<".">>)
                      v == PyFloat(s2)
                  IN  IF ~v.ok THEN <<"-">>
                      ELSE Replace(Fixed2(v.neg, EffHundredths(v)), ".", <<",">>)
                               \o <<"%">>

-----------------------------------------------------------------------------
(* Dates: fmt_date, ym_from_date_str, month_label_from_ym, safe_str *)

NaT == [ok |-> FALSE, y |-> 0, m |-> 0, d |-> 0]

IsLeap(y) == (y % 4 = 0 /\ y % 100 # 0) \/ y % 400 = 0

DaysIn(m, y) ==
    IF m = 2 THEN (IF IsLeap(y) THEN 29 ELSE 28)
    ELSE IF m \in {4, 6, 9, 11} THEN 30 ELSE 31

ValidDate(y, m, d) ==
    /\ y \in 1678..2261          \* every day of these years is a Timestamp
    /\ m \in 1..12
    /\ d \in 1..DaysIn(m, y)

\* pd.to_datetime(s, dayfirst=True, errors="coerce") for a text s of the
\* shape NN/NN/NNNN: the first number is the day; when that gives a month
\* above 12 the two are swapped (pandas warns and parses month-first).
\* Any other text of the model's cells is no date: NaT.
ToDatetime(s) ==
    IF /\ Len(s) = 10
       /\ s[3] = "/" /\ s[6] = "/"
       /\ \A i \in {1, 2, 4, 5, 7, 8, 9, 10} : s[i] \in Digit
    THEN LET a == TextToNat(SubSeq(s, 1, 2))
             b == TextToNat(SubSeq(s, 4, 5))
             y == TextToNat(SubSeq(s, 7, 10))
         IN  IF b <= 12
             THEN (IF ValidDate(y, b, a) THEN [ok |-> TRUE, y |-> y, m |-> b, d |-> a]
                   ELSE NaT)
             ELSE (IF ValidDate(y, a, b) THEN [ok |-> TRUE, y |-> y, m |-> a, d |-> b]
                   ELSE NaT)
    ELSE NaT

\* str(n).zfill(2), and "%d" / "%m" of strftime
Pad2(n) == IF n < 10 THEN <<"0">> \o NatToText(n) ELSE NatToText(n)

\* dt.strftime("%d/%m/%Y")
StrfDate(dt) == Pad2(dt.d) \o <<"/">> \o Pad2(dt.m) \o <<"/">> \o NatToText(dt.y)

fmt_date(x) ==
    IF isna(x) \/ Strip(str(x)) \in Sentinels THEN <<>>
    ELSE LET dt == ToDatetime(str(x))
         IN  IF ~dt.ok THEN <<>> ELSE StrfDate(dt)

\* dd/mm/aaaa -> YYYY-MM
ym_from_date_str(date_str) ==
    IF date_str = <<>> THEN <<>>
    ELSE LET dt == ToDatetime(date_str)
         IN  IF ~dt.ok THEN <<>>
             ELSE NatToText(dt.y) \o <<"-">> \o Pad2(dt.m)

\* YYYY-MM -> MM/YYYY; a text that does not split in two at "-" is returned
\* as it is.
month_label_from_ym(ym) ==
    LET i == Find(ym, "-")
    IN  IF i = 0 \/ Has(SubSeq(ym, i + 1, Len(ym)), "-") THEN ym
        ELSE SubSeq(ym, i + 1, Len(ym)) \o <<"/">> \o SubSeq(ym, 1, i - 1)

safe_str(x) == IF isna(x) THEN <<>> ELSE str(x)

-----------------------------------------------------------------------------
(* sorted() of a set of texts *)

\* ord(c) for the characters of month keys and dates
Ord(c) ==
    CASE c = " " -> 32
      [] c = "-" -> 45
      [] c = "/" -> 47
      [] c \in Digit -> 48 + DigitVal(c)

\* s < t as Python compares str
RECURSIVE TextLess(_, _)
TextLess(s, t) ==
    IF t = <<>> THEN FALSE
    ELSE IF s = <<>> THEN TRUE
    ELSE IF Head(s) # Head(t) THEN Ord(Head(s)) < Ord(Head(t))
    ELSE TextLess(Tail(s), Tail(t))

RECURSIVE SortedTexts(_)
SortedTexts(S) ==
    IF S = {} THEN <<>>
    ELSE LET least == CHOOSE s \in S : \A u \in S \ {s} : TextLess(s, u)
         IN  <<least>> \o SortedTexts(S \ {least})

IdleMain ==
    /\ pc = "idle" /\ fileExists = FALSE /\ fs = {} /\ tables = <<>>
    /\ months_found = {} /\ months_sorted = <<>> /\ options = <<>>
    /\ rowsRead = 0 /\ sheetsIn = <<>>
IdleFormat == colName = <<>> /\ col = <<>> /\ colOut = <<>>
IdleNorm == normIn = None /\ normOut = <<>>
IdlePage == dom = <<>> /\ scriptRan = FALSE

mainVars == <<pc, fileExists, fs, tables, months_found, months_sorted, options,
              rowsRead, sheetsIn>>
formatVars == <<colName, col, colOut>>
normVars == <<normIn, normOut>>
pageVars == <<dom, scriptRan>>

InitNorm ==
    /\ normIn \in NormArgs
    /\ normOut = <<>>
    /\ IdleMain /\ IdleFormat /\ IdlePage

\* c_norm = norm(col)
CallNorm ==
    /\ normOut = <<>>
    /\ normOut' = <<norm(normIn)>>
    /\ UNCHANGED <<normIn, mainVars, formatVars, pageVars>>

\* norm applied to a value norm returned
CallNormAgain ==
    /\ Len(normOut) = 1
    /\ normOut' = Append(normOut, norm(normOut[1]))
    /\ UNCHANGED <<normIn, mainVars, formatVars, pageVars>>

NextNorm == CallNorm \/ CallNormAgain

SpecNorm == InitNorm /\ [][NextNorm]_vars

\* C8: norm is idempotent: norm(norm(s)) = norm(s) for every text s and for
\* None.
C8_NormIdempotent == Len(normOut) = 2 => normOut[2] = normOut[1]

-----------------------------------------------------------------------------
(* main(): the formatting of one column, lines 311-320 *)

\* sub in s
Contains(s, sub) ==
    \E i \in 0..(Len(s) - Len(sub)) : SubSeq(s, i + 1, i + Len(sub)) = sub

T_eficiencia == <<"e", "f", "i", "c", "i", "e", "n", "c", "i", "a">>
T_faturamento == <<"f", "a", "t", "u", "r", "a", "m", "e", "n", "t", "o">>
T_rs == <<"r", "$">>

\* The formatter main() picks for a column by its header.
ColumnKind(name) ==
    LET c_norm == norm(name)
    IN  IF Contains(c_norm, T_eficiencia) THEN "efficiency"
        ELSE IF Contains(c_norm, T_rs) \/ c_norm = T_faturamento THEN "money"
        ELSE "plain"

\* df[col] = df[col].map(f), or df[col] left alone
FormatColumnValue(name, c) ==
    LET kind == ColumnKind(name)
    IN  [i \in DOMAIN c |->
            IF kind = "efficiency" THEN Txt(fmt_efficiency(c[i]))
            ELSE IF kind = "money" THEN Txt(fmt_money(c[i]))
            ELSE c[i]]

\* Headers
H_Faturamento == <<"F", "a", "t", "u", "r", "a", "m", "e", "n", "t", "o">>
H_ValorRS == <<"V", "a", "l", "o", "r", " ", "R", "$">>
H_Eficiencia == <<"E", "f", "i", "c", "i", "U+00EA", "n", "c", "i", "a">>
H_EficienciaRS == <<"E", "F", "I", "C", "I", "U+00CA", "N", "C", "I", "A", " ", "R", "$", " ">>
H_Nome == <<"N", "o", "m", "e">>

\* Texts of money cells: every text of at most MaxMoneyLen characters of
\* MoneyAlphabet, and the two spelled-out blanks.
MoneyAlphabet == {"0", "1", "2", "5", ".", ",", "-", " "}
MoneyTexts ==
    Texts(MoneyAlphabet, MaxMoneyLen) \cup {<<"n", "a", "n">>, <<"N", "a", "N">>}

\* Amounts: a sign, an integer part of at most MaxIntDigits digits without
\* leading zero, and two digits of cents.
AmountDigits == {"0", "1"}
CentDigits == {"0", "5"}
Amounts ==
    [neg : BOOLEAN,
     ip : {d \in Texts(AmountDigits, MaxIntDigits) :
             Len(d) >= 1 /\ (Len(d) > 1 => d[1] # "0")},
     cc : [1..2 -> CentDigits]]

SignText(a) == IF a.neg THEN <<"-">> ELSE <<>>

\* The amount as Brazilian text: "-1.234.567,89"
BRText(a) == SignText(a) \o Replace(Group3(a.ip), ",", <<".">>) \o <<",">> \o a.cc

\* The amount as plain numeric text: "-1234567.89"
PlainText(a) == SignText(a) \o a.ip \o <<".">> \o a.cc

\* str() of the amount as a native float: "-1234567.89", "12.5", "12.0"
NativeText(a) ==
    SignText(a) \o a.ip \o <<".">>
        \o (IF a.cc[2] # "0" THEN a.cc ELSE <<a.cc[1]>>)

\* A column holding the three shapes of one amount.
AmountColumn(a) == <<Txt(BRText(a)), Txt(PlainText(a)), Num(NativeText(a))>>

MoneyColumns ==
    {<<Txt(s)>> : s \in MoneyTexts} \cup {<<NaN>>}
        \cup {AmountColumn(a) : a \in Amounts}

\* Texts of efficiency cells.
EffAlphabet == {"0", "1", "5", ".", ",", "%", "-", " "}
EffTexts ==
    Texts(EffAlphabet, MaxEffLen) \cup {<<"n", "a", "n">>, <<"N", "a", "N">>}

\* Fractions 0.d1..dk of at most MaxFracDigits digits, as str() prints the
\* float: no trailing zero ("0.0" for zero), and not below 0.0001, where
\* str() turns to exponent notation.
FracDigitSet == {"0", "1", "3", "5"}
Fractions ==
    {d \in Texts(FracDigitSet, MaxFracDigits) :
        /\ Len(d) >= 1
        /\ (d[Len(d)] = "0" => d = <<"0">>)
        /\ (d = <<"0">> \/ Len(d) <= 4 \/ \E i \in 1..4 : d[i] # "0")}

RECURSIVE DropLeadingZeros(_)
DropLeadingZeros(d) ==
    IF Len(d) > 1 /\ Head(d) = "0" THEN DropLeadingZeros(Tail(d)) ELSE d

\* str() of the float 100 * 0.d1..dk written as a decimal: "33.33", "50.0"
PercentText(d) ==
    LET p == IF Len(d) = 1 THEN d \o <<"0">> ELSE d
    IN  DropLeadingZeros(SubSeq(p, 1, 2)) \o <<".">>
            \o (IF Len(p) = 2 THEN <<"0">> ELSE SubSeq(p, 3, Len(p)))

\* A column holding a fraction, its percentage as a number and as
\* comma-decimal text.
FractionColumn(d) ==
    <<Num(<<"0", ".">> \o d), Num(PercentText(d)),
      Txt(Replace(PercentText(d), ".", <<",">>))>>

\* The same for the fraction 1.0.
OneColumn ==
    <<Num(<<"1", ".", "0">>), Num(<<"1", "0", "0", ".", "0">>),
      Txt(<<"1", "0", "0", ",", "0">>)>>

EffColumns ==
    {<<Txt(s)>> : s \in EffTexts} \cup {<<NaN>>}
        \cup {FractionColumn(d) : d \in Fractions} \cup {OneColumn}

PlainColumns == {<<Txt(<<"1", ",", "5">>)>>, <<NaN>>, <<Txt(<<" ", "-">>), NaN>>}

InitMoney ==
    /\ colName \in {H_Faturamento, H_ValorRS, H_Nome}
    /\ col \in IF colName = H_Nome THEN PlainColumns ELSE MoneyColumns
    /\ colOut = <<>>
    /\ IdleMain /\ IdleNorm /\ IdlePage

InitEff ==
    /\ colName \in {H_Eficiencia, H_EficienciaRS, H_Nome}
    /\ col \in IF colName = H_Nome THEN PlainColumns ELSE EffColumns
    /\ colOut = <<>>
    /\ IdleMain /\ IdleNorm /\ IdlePage

\* One turn of "for col in df.columns" in main()
FormatColumn ==
    /\ colOut = <<>>
    /\ colOut' = FormatColumnValue(colName, col)
    /\ UNCHANGED <<colName, col, mainVars, normVars, pageVars>>

NextFormat == FormatColumn

SpecMoney == InitMoney /\ [][NextFormat]_vars
SpecEff == InitEff /\ [][NextFormat]_vars

-----------------------------------------------------------------------------
(* Properties of the formatters *)

RECURSIVE OnlyDigits(_)
OnlyDigits(s) ==
    IF s = <<>> THEN <<>>
    ELSE (IF Head(s) \in Digit THEN <<Head(s)>> ELSE <<>>) \o OnlyDigits(Tail(s))

\* The hundredths a formatted amount or percentage shows: "R$ 1.234,56"
\* and "1234,56%" show 123456.
ReadHundredths(s) == TextToNat(OnlyDigits(s))

MoneyMapped == colOut # <<>> /\ ColumnKind(colName) = "money"
EffMapped == colOut # <<>> /\ ColumnKind(colName) = "efficiency"

\* A blank cell: missing, or one of the sentinel texts once trimmed.
Blank(x) == isna(x) \/ Strip(str(x)) \in Sentinels

\* C4: for a blank cell and for a text that is no number,
\* fmt_money yields neither the zero amount nor the input text.
C4_NeverDefaults ==
    MoneyMapped =>
        \A i \in DOMAIN col :
            (Blank(col[i]) \/ ~MoneyFloat(Strip(str(col[i]))).ok)
                => colOut[i].s \notin {RS_Zero, str(col[i]), Strip(str(col[i]))}

\* floor(d * 100 + 1/2) for d = n / 10^k
HalfUp(n, k) ==
    IF k <= 2 THEN n * Pow10(2 - k)
    ELSE (n + 5 * Pow10(k - 3)) \div Pow10(k - 2)

\* C5: every non-negative amount d that parses is shown rounded half up to
\* two decimals on its exact decimal value: floor(d * 100 + 1/2) / 100.
C5_RoundHalfUpDecimal ==
    MoneyMapped =>
        \A i \in DOMAIN col :
            LET v == MoneyFloat(Strip(str(col[i])))
            IN  (~Blank(col[i]) /\ v.ok /\ ~v.neg)
                    => ReadHundredths(colOut[i].s) = HalfUp(v.n, v.k)

\* C7: the Brazilian text, the plain numeric text and the native number of
\* one amount are formatted to the same result, which is "R$ " followed by
\* the amount's Brazilian text.
C7_ThreeShapesAgree ==
    (MoneyMapped /\ Len(col) = 3) =>
        /\ colOut[1] = colOut[2]
        /\ colOut[2] = colOut[3]
        /\ colOut[1].s = <<"R", "$", " ">> \o col[1].s

C7_Witness ==
    /\ MoneyMapped
    /\ col[1] = Txt(<<"1", ".", "1", "0", "1", ".", "0", "0", "1", ",", "0", "5">>)
    /\ Len(col) = 3
    /\ col[3] = Num(<<"1", "1", "0", "1", "0", "0", "1", ".", "0", "5">>)
    /\ colOut[3].s = <<"R", "$", " ", "1", ".", "1", "0", "1", ".", "0", "0", "1", ",", "0", "5">>

\* The float fmt_efficiency parses from a cell's text.
EffFloat(x) == PyFloat(Replace(Strip(Replace(Strip(str(x)), "%", <<>>)), ",", <<".">>))

\* floor(n * 10^m / 10^k)
ShiftFloor(n, m, k) ==
    IF k >= m THEN n \div Pow10(k - m) ELSE n * Pow10(m - k)

\* The parsed values 0 <= v <= 1 are shown times 100 and every other value
\* unscaled, to the nearest hundredth (exactly, when the value has no more
\* digits than are shown); 0 is shown "0,00%" and 1.0 "100,00%".
EffThreshold ==
    EffMapped =>
        \A i \in DOMAIN col :
            LET v == EffFloat(col[i])
                unit == ~v.neg /\ v.n <= Pow10(v.k)
                m == IF unit \/ v.n = 0 THEN 4 ELSE 2
                e == ShiftFloor(v.n, m, v.k)
                h == ReadHundredths(colOut[i].s)
                o == colOut[i].s
            IN  (~Blank(col[i]) /\ v.ok) =>
                    /\ h \in {e, e + 1}
                    /\ v.k <= m => h = e
                    /\ Len(o) >= 5 /\ o[Len(o)] = "%" /\ o[Len(o) - 3] = ","
                    /\ (o[1] = "-") = v.neg

\* C6 (as claimed): the threshold, and: a fraction in [0,1], its percentage
\* as a number and its percentage as comma-decimal text are shown alike.
C6_FractionShownAsPercentage ==
    /\ EffThreshold
    /\ (EffMapped /\ Len(col) = 3) =>
           colOut[1] = colOut[2] /\ colOut[2] = colOut[3]

\* C6 (amended): the threshold, and: a fraction f in [0,1] of at most four
\* decimal digits that is 0 or has 100*f > 1, its percentage as a number
\* and its percentage as comma-decimal text are shown alike.
C6_ScalesUnitInterval ==
    /\ EffThreshold
    /\ (EffMapped /\ Len(col) = 3) =>
           LET f == PyFloat(col[1].s)
           IN  (f.k <= 4 /\ (f.n = 0 \/ 100 * f.n > Pow10(f.k)))
                   => colOut[1] = colOut[2] /\ colOut[2] = colOut[3]

C6_Witness ==
    /\ EffMapped
    /\ col = FractionColumn(<<"3", "3", "3", "3">>)
    /\ colOut[1] = Txt(<<"3", "3", ",", "3", "3", "%">>)
    /\ colOut[3] = colOut[1]

-----------------------------------------------------------------------------
(* df_to_html_table, build_html and main() *)

\* SHEETS, in the order main() walks them
Labels == <<"Imoveis", "Carbuy", "Veiculos">>

T_Data == <<"D", "a", "t", "a">>
T_Unnamed == <<"U", "n", "n", "a", "m", "e", "d">>

\* The headers a sheet's date column comes with.
H_Data == T_Data
H_DataPadded == <<" ">> \o T_Data
H_Dia == <<"D", "i", "a">>
DateHeaders == {H_Data, H_DataPadded, H_Dia}

\* The cells of that column: day-first dates, a text that is no date, and
\* the missing cell.
D_05_01_2026 == <<"0", "5", "/", "0", "1", "/", "2", "0", "2", "6">>
D_15_02_2026 == <<"1", "5", "/", "0", "2", "/", "2", "0", "2", "6">>
D_31_12_2025 == <<"3", "1", "/", "1", "2", "/", "2", "0", "2", "5">>
T_abc == <<"a", "b", "c">>
DateCells == {NaN, Txt(D_05_01_2026), Txt(D_15_02_2026), Txt(D_31_12_2025), Txt(T_abc)}

\* What pd.read_excel(..., header=1) returns, for a sheet of one column and
\* at most n rows: the column's header and its cells.
Sheets(n) == [header : DateHeaders, cells : UNION {[1..m -> DateCells] : m \in 0..n}]

StartsWith(s, pre) == Len(s) >= Len(pre) /\ SubSeq(s, 1, Len(pre)) = pre

\* main(), lines 303-304: the column survives unless its header starts
\* with "Unnamed" or it has no value at all.
KeepColumn(sheet) ==
    /\ ~StartsWith(sheet.header, T_Unnamed)
    /\ \E i \in DOMAIN sheet.cells : ~isna(sheet.cells[i])

\* main(), lines 306-320: the frame handed to df_to_html_table. Its column
\* is kept or not; its rows stay.
CleanFrame(sheet) ==
    LET keep == KeepColumn(sheet)
        dated == IF keep /\ sheet.header = T_Data
                 THEN [i \in DOMAIN sheet.cells |-> Txt(fmt_date(sheet.cells[i]))]
                 ELSE sheet.cells
    IN  [keep |-> keep, header |-> sheet.header,
         cells |-> IF keep THEN FormatColumnValue(sheet.header, dated) ELSE dated]

\* The month key of row i of the frame, as df_to_html_table computes it.
RowMonth(df, i) ==
    IF df.keep /\ Strip(df.header) = T_Data
    THEN ym_from_date_str(safe_str(df.cells[i]))
    ELSE <<>>

\* df_to_html_table(df, months_set): the table, and months_set as the call
\* leaves it. A row is its data-month attribute (<<>>: the tr has none) and
\* the texts of its cells.
df_to_html_table(df, months_set) ==
    [thead |-> IF df.keep THEN <<Strip(df.header)>> ELSE <<>>,
     rows |-> [i \in DOMAIN df.cells |->
                 [month |-> RowMonth(df, i),
                  tds |-> IF df.keep THEN <<safe_str(df.cells[i])>> ELSE <<>>]],
     months |-> months_set \cup
                  ({RowMonth(df, i) : i \in DOMAIN df.cells} \ {<<>>})]

\* sorted(months_found) in descending order.
MonthsSorted_Reversed(months) ==
    LET s == SortedTexts(months)
    IN  [i \in DOMAIN s |-> s[Len(s) + 1 - i]]

\* months_sorted = sorted(months_found)
MonthsSorted(months) == SortedTexts(months)

T_ALL == <<"A", "L", "L">>
T_Todos == <<"T", "o", "d", "o", "s">>

\* build_html: the options of the month selector
MonthOptions(sorted) ==
    <<[value |-> T_ALL, label |-> T_Todos]>>
        \o [i \in DOMAIN sorted |->
              [value |-> sorted[i], label |-> month_label_from_ym(sorted[i])]]

Init ==
    /\ pc = "start"
    /\ fileExists \in BOOLEAN
    /\ fs = {}
    /\ tables = <<>>
    /\ months_found = {}
    /\ months_sorted = <<>>
    /\ options = <<>>
    /\ rowsRead = 0
    /\ sheetsIn = <<>>
    /\ IdleFormat /\ IdleNorm /\ IdlePage

\* DOCS_DIR.mkdir(...); (DOCS_DIR / "assets").mkdir(...)
MakeDirs ==
    /\ pc = "start"
    /\ fs' = fs \cup {"docs", "docs/assets"}
    /\ pc' = "dirs"
    /\ UNCHANGED <<fileExists, tables, months_found, months_sorted, options,
                   rowsRead, sheetsIn, formatVars, normVars, pageVars>>

\* if not EXCEL_FILE.exists(): raise FileNotFoundError
RaiseNotFound ==
    /\ pc = "dirs"
    /\ ~fileExists
    /\ pc' = "raised"
    /\ UNCHANGED <<fileExists, fs, tables, months_found, months_sorted, options,
                   rowsRead, sheetsIn, formatVars, normVars, pageVars>>

\* the file is there: tables = {}; months_found = set()
EnterLoop ==
    /\ pc = "dirs"
    /\ fileExists
    /\ pc' = "loop"
    /\ UNCHANGED <<fileExists, fs, tables, months_found, months_sorted, options,
                   rowsRead, sheetsIn, formatVars, normVars, pageVars>>

\* One turn of "for label, sheet_name in SHEETS.items()", lines 298-322
ReadSheet ==
    /\ pc = "loop"
    /\ Len(tables) < Len(Labels)
    /\ \E sheet \in Sheets(MaxRows - rowsRead) :
          LET t == df_to_html_table(CleanFrame(sheet), months_found)
          IN  /\ tables' = Append(tables, [thead |-> t.thead, rows |-> t.rows])
              /\ months_found' = t.months
              /\ sheetsIn' = Append(sheetsIn, sheet)
              /\ rowsRead' = rowsRead + Len(sheet.cells)
    /\ UNCHANGED <<pc, fileExists, fs, months_sorted, options, formatVars,
                   normVars, pageVars>>

\* Lines 324-332: sort the months, build the page, write docs/index.html
WritePage ==
    /\ pc = "loop"
    /\ Len(tables) = Len(Labels)
    /\ months_sorted' = MonthsSorted(months_found)
    /\ options' = MonthOptions(MonthsSorted(months_found))
    /\ fs' = fs \cup {"docs/index.html"}
    /\ pc' = "done"
    /\ UNCHANGED <<fileExists, tables, months_found, rowsRead, sheetsIn,
                   formatVars, normVars, pageVars>>

Next == MakeDirs \/ RaiseNotFound \/ EnterLoop \/ ReadSheet \/ WritePage

Spec == Init /\ [][Next]_vars

-----------------------------------------------------------------------------
(* Properties of main() *)

\* Sheet i has a date column for df_to_html_table: a column that survived
\* the clean-up and is called "Data" once trimmed.
HasDateColumn(i) == KeepColumn(sheetsIn[i]) /\ Strip(sheetsIn[i].header) = T_Data

DateParses(c) == fmt_date(c) # <<>>

\* C1: of a sheet with a date column, exactly the rows whose date parsed
\* are emitted, in their order, and each carries a month key.
C1_UnparsedDatesDropped ==
    \A i \in DOMAIN tables :
        HasDateColumn(i) =>
            LET parsed == SelectSeq(sheetsIn[i].cells, DateParses)
                rows == tables[i].rows
            IN  /\ Len(rows) = Len(parsed)
                /\ \A j \in DOMAIN rows :
                      /\ rows[j].month # <<>>
                      /\ rows[j].tds = <<fmt_date(parsed[j])>>

\* C2: with the source file missing, the run writes nothing under docs/:
\* no directory or file is created there before (or after) the error.
C2_NothingWrittenWhenFileMissing == ~fileExists => fs = {}

\* The month keys the emitted rows of all tables carry.
EmittedMonths ==
    {tables[i].rows[j].month : <<i, j>> \in
        {<<i, j>> \in (DOMAIN tables) \X (0..MaxRows + 1) :
            j \in DOMAIN tables[i].rows}} \ {<<>>}

\* Months since year 0 of a key YYYY-MM.
MonthNumber(ym) == 12 * TextToNat(SubSeq(ym, 1, 4)) + TextToNat(SubSeq(ym, 6, 7))

\* C3: once the run is done, the month list (and, after "ALL", the month
\* selector's options) holds each month key carried by an emitted row of
\* any BU exactly once, nothing else, in ascending order.
C3_MonthsAreSortedUnion ==
    pc = "done" =>
        /\ Range(months_sorted) = EmittedMonths
        /\ Len(months_sorted) = Cardinality(EmittedMonths)
        /\ \A i, j \in DOMAIN months_sorted :
              i < j => MonthNumber(months_sorted[i]) < MonthNumber(months_sorted[j])
        /\ Len(options) = Len(months_sorted) + 1
        /\ options[1].value = T_ALL
        /\ \A i \in DOMAIN months_sorted : options[i + 1].value = months_sorted[i]

C3_Witness ==
    /\ pc = "done"
    /\ tables[1].rows # <<>> /\ tables[1].rows[1].month = <<"2", "0", "2", "6", "-", "0", "1">>
    /\ tables[2].rows = <<>>
    /\ tables[3].rows # <<>> /\ tables[3].rows[1].month = <<"2", "0", "2", "5", "-", "1", "2">>
    /\ months_sorted = << <<"2", "0", "2", "5", "-", "1", "2">>,
                          <<"2", "0", "2", "6", "-", "0", "1">> >>

\* YYYY-MM with month 01..12
WellFormedMonth(ym) ==
    /\ Len(ym) = 7
    /\ ym[5] = "-"
    /\ \A i \in {1, 2, 3, 4, 6, 7} : ym[i] \in Digit
    /\ TextToNat(SubSeq(ym, 6, 7)) \in 1..12

\* C9: in a sheet with a date column, every emitted row's month key is
\* empty exactly when its shown date is empty, and is otherwise a
\* well-formed YYYY-MM that repeats the yyyy and mm of the shown
\* dd/mm/yyyy date.
C9_MonthKeyMatchesShownDate ==
    \A i \in DOMAIN tables :
        HasDateColumn(i) =>
            \A j \in DOMAIN tables[i].rows :
                LET r == tables[i].rows[j]
                    shown == r.tds[1]
                IN  /\ (r.month = <<>>) <=> (shown = <<>>)
                    /\ r.month # <<>> =>
                          /\ WellFormedMonth(r.month)
                          /\ Len(shown) = 10
                          /\ SubSeq(shown, 7, 10) = SubSeq(r.month, 1, 4)
                          /\ SubSeq(shown, 4, 5) = SubSeq(r.month, 6, 7)

-----------------------------------------------------------------------------
(* The page build_html writes, and its script *)

\* tab_ids, in the order of the nav buttons and of the table wrappers
TabIds == <<"tab-imoveis", "tab-carbuy", "tab-veiculos">>

\* The DOM of the page as the browser parsed it, before the script runs:
\* per wrapper its "hidden" class, per nav button its "active" class, per
\* tbody row its data-month (<<>>: none) and its style.display, and the
\* selector with its options and value. shown records the last argument
\* of showTab ("": not called yet).
LoadPage(tbls, opts) ==
    [hidden |-> [i \in DOMAIN TabIds |-> i # 1],
     active |-> [i \in DOMAIN TabIds |-> i = 1],
     month |-> [i \in DOMAIN TabIds |->
                  [j \in DOMAIN tbls[i].rows |-> tbls[i].rows[j].month]],
     display |-> [i \in DOMAIN TabIds |-> [j \in DOMAIN tbls[i].rows |-> ""]],
     options |-> [i \in DOMAIN opts |-> opts[i].value],
     select |-> opts[1].value,
     shown |-> ""]

\* applyMonthFilter restricted to the rows of the visible wrappers.
applyMonthFilter_VisibleOnly(d, monthValue) ==
    [d EXCEPT !.display =
        [i \in DOMAIN d.display |-> [j \in DOMAIN d.display[i] |->
            IF d.hidden[i] THEN d.display[i][j]
            ELSE IF monthValue = T_ALL THEN ""
            ELSE IF d.month[i][j] = monthValue THEN "" ELSE "none"]]]

\* function applyMonthFilter(monthValue)
applyMonthFilter(d, monthValue) ==
    [d EXCEPT !.display =
        [i \in DOMAIN d.display |-> [j \in DOMAIN d.display[i] |->
            IF monthValue = T_ALL THEN ""
            ELSE IF d.month[i][j] = monthValue THEN "" ELSE "none"]]]

\* function showTab(tabId)
showTab(d, tabId) ==
    LET d1 == [d EXCEPT
                  !.hidden = [i \in DOMAIN TabIds |-> TabIds[i] # tabId],
                  !.active = [i \in DOMAIN TabIds |-> TabIds[i] = tabId],
                  !.shown = tabId]
    IN  applyMonthFilter(d1, d1.select)

\* The month keys a generated page's rows carry.
PageMonths == {<<"2", "0", "2", "6", "-", "0", "1">>, <<"2", "0", "2", "6", "-", "0", "2">>}

\* Tables as df_to_html_table returns them, of at most MaxPageRows rows.
PageTables ==
    [thead : {<<T_Data>>},
     rows : UNION {[1..n -> [month : PageMonths \cup {<<>>}, tds : {<<>>}]] :
                      n \in 0..MaxPageRows}]

TableMonths(tbls) ==
    UNION {{tbls[i].rows[j].month : j \in DOMAIN tbls[i].rows} : i \in DOMAIN tbls} \ {<<>>}

InitPage ==
    /\ \E tbls \in [DOMAIN TabIds -> PageTables] :
          dom = LoadPage(tbls, MonthOptions(MonthsSorted(TableMonths(tbls))))
    /\ scriptRan = FALSE
    /\ IdleMain /\ IdleFormat /\ IdleNorm

\* The browser restores the selector's value (a reload) before the script
\* has attached its listeners.
RestoreSelection ==
    /\ ~scriptRan
    /\ \E v \in Range(dom.options) : dom' = [dom EXCEPT !.select = v]
    /\ UNCHANGED <<scriptRan, mainVars, formatVars, normVars>>

\* The script runs to its last line: showTab("tab-imoveis")
RunScript ==
    /\ ~scriptRan
    /\ dom' = showTab(dom, TabIds[1])
    /\ scriptRan' = TRUE
    /\ UNCHANGED <<mainVars, formatVars, normVars>>

\* click on a nav button
ClickTab ==
    /\ scriptRan
    /\ \E b \in DOMAIN TabIds : dom' = showTab(dom, TabIds[b])
    /\ UNCHANGED <<scriptRan, mainVars, formatVars, normVars>>

\* change of the month selector
ChangeMonth ==
    /\ scriptRan
    /\ \E v \in Range(dom.options) :
          dom' = applyMonthFilter([dom EXCEPT !.select = v], v)
    /\ UNCHANGED <<scriptRan, mainVars, formatVars, normVars>>

NextPage == RestoreSelection \/ RunScript \/ ClickTab \/ ChangeMonth

SpecPage == InitPage /\ [][NextPage]_vars

\* C10: once the script has run, whatever was clicked or selected since,
\* exactly one wrapper is visible and exactly one button active, those of
\* the last tab shown, and every row of every table is displayed if and
\* only if the selector is at ALL or at the row's data-month.
C10_OneTabAndMonthFilter ==
    scriptRan =>
        /\ \A i \in DOMAIN TabIds :
              /\ ~dom.hidden[i] <=> TabIds[i] = dom.shown
              /\ dom.active[i] <=> TabIds[i] = dom.shown
        /\ Cardinality({i \in DOMAIN TabIds : ~dom.hidden[i]}) = 1
        /\ Cardinality({i \in DOMAIN TabIds : dom.active[i]}) = 1
        /\ \A i \in DOMAIN TabIds : \A j \in DOMAIN dom.display[i] :
              (dom.display[i][j] = "")
                  <=> (dom.select = T_ALL \/ dom.select = dom.month[i][j])

C10_Witness ==
    /\ scriptRan
    /\ dom.shown = "tab-carbuy"
    /\ dom.select = <<"2", "0", "2", "6", "-", "0", "2">>
    /\ dom.month[3] # <<>> /\ dom.month[3][1] = <<>> /\ dom.display[3][1] = "none"
    /\ dom.month[1] # <<>> /\ dom.month[1][1] = dom.select /\ dom.display[1][1] = ""

====
